---- MODULE Spec2Model ----
(***************************************************************************)
(* Interval-to-bucket aggregation of the Enedis integration                *)
(* (custom_components/enedis/helpers.py): async_fetch_datas and            *)
(* async_statistics with their helpers weighted_interval, has_range and    *)
(* dateatmidnight, the recorder's statistics table they read and append    *)
(* to, and the executor jobs that carry the appends.                       *)
(*                                                                         *)
(* Units.  Python computes in floats; the model computes in integers:      *)
(*   clock times   minutes after 00:00                                     *)
(*   energy        Wh*minutes: 60000 units are 1 kWh, so that              *)
(*                 value / 1000 * (minutes / 60) is value * minutes        *)
(*   prices        cents per kWh, costs in cents (round(x, 2) keeps cents) *)
(* An optional value (None or a value) is a sequence of length 0 or 1.     *)
(***************************************************************************)
EXTENDS Integers, Sequences, FiniteSets, TLC

\* ------------------------------------------------------------------ bounds
MaxReadings == 2        \* readings the gateway returns over the generic runs
NumDays == 3            \* calendar dates 0 .. NumDays-1 the readings fall on
DaysPerMonth == 2       \* length of a month of the model's calendar
MaxRuns == 2            \* refresh cycles
MaxCustomRules == 2     \* custom rules of a config entry
MaxClears == 2          \* clear_statistics jobs waiting for the executor
MaxId == 10             \* greatest id the options flow proposes
MaxEntries == 2         \* pricings of a direction, intervals of a pricing

MinutesPerHour == 60
MinutesPerDay == 24 * MinutesPerHour
UnitsPerKwh == 1000 * MinutesPerHour
Midnight == 0 * MinutesPerHour
T0600 == 6 * MinutesPerHour
T2200 == 22 * MinutesPerHour
ClockSet == {Midnight, T0600, T2200}
Dates == 0 .. (NumDays - 1)

\* ------------------------------------------------------------ date and time
\* A datetime is [date |-> calendar date, clock |-> minutes after 00:00].
DateTime(d, c) == [date |-> d, clock |-> c]

\* datetime.day: the day of the month, 1-based.
DayOfMonth(dt) == (dt.date % DaysPerMonth) + 1

\* datetime.time()
TimeOf(dt) == dt.clock

\* Position of a datetime on the time line (datetime comparison).
Instant(dt) == dt.date * MinutesPerDay + dt.clock

\* dateatmidnight that keeps the time of the day.
dateatmidnight_keeping_time(date) == date

\* dateatmidnight(date): the same calendar date at 00:00.
dateatmidnight(date) == DateTime(date.date, Midnight)

\* dt_util.parse_datetime(data["date"]).replace(tzinfo=UTC)
date_of(data) == DateTime(data.date, data.clock)

\* ------------------------------------------------------- weighted_interval
Digits == {"0", "1", "2", "3", "4", "5", "6", "7", "8", "9"}

DigitValue(c) ==
    CASE c = "0" -> 0 [] c = "1" -> 1 [] c = "2" -> 2 [] c = "3" -> 3
      [] c = "4" -> 4 [] c = "5" -> 5 [] c = "6" -> 6 [] c = "7" -> 7
      [] c = "8" -> 8 [] c = "9" -> 9

\* Start positions of the matches of the pattern PT([0-9]{2})M in a string,
\* given as a tuple of characters (two matches of it never overlap).
findall_PT2M(s) ==
    { i \in 1 .. (Len(s) - 4) :
        /\ s[i] = "P" /\ s[i + 1] = "T"
        /\ s[i + 2] \in Digits /\ s[i + 3] \in Digits
        /\ s[i + 4] = "M" }

\* weighted_interval that ignores the duration tag.
weighted_interval_untagged(interval) == MinutesPerHour

\* weighted_interval(interval), as minutes of an hour: 60 stands for 1.
\* A missing tag (None) is the empty tuple.
weighted_interval(interval) ==
    LET rslt == findall_PT2M(interval)
    IN  IF interval # <<>> /\ Cardinality(rslt) = 1
        THEN LET i == CHOOSE j \in rslt : TRUE
             IN  10 * DigitValue(interval[i + 2]) + DigitValue(interval[i + 3])
        ELSE MinutesPerHour

\* ---------------------------------------------------------------- has_range
\* has_range with the start bound included.
has_range_start_included(hour, start, end) ==
    \/ (TimeOf(hour) >= start /\ TimeOf(hour) <= end)
    \/ (end = Midnight /\ (TimeOf(hour) > start \/ TimeOf(hour) = Midnight))

\* has_range without the 00:00 sample in a window that ends at midnight.
has_range_without_midnight(hour, start, end) ==
    \/ (TimeOf(hour) > start /\ TimeOf(hour) <= end)
    \/ (end = Midnight /\ TimeOf(hour) > start)

has_range(hour, start, end) ==
    LET midnight == Midnight
        start_time == TimeOf(hour)
        starting == start
        ending == end
    IN  IF start_time > starting /\ start_time <= ending
        THEN TRUE
        ELSE IF (ending = midnight) /\ (start_time > starting \/ start_time = midnight)
        THEN TRUE
        ELSE FALSE

\* ------------------------------------------------------------------ rounding
\* round(n / d, 0) for n >= 0, d > 0, halves to the even neighbour.
RoundDiv(n, d) ==
    LET q == n \div d
        r == n % d
    IN  IF 2 * r < d THEN q
        ELSE IF 2 * r > d THEN q + 1
        ELSE IF q % 2 = 0 THEN q ELSE q + 1

\* round(energy * price, 2), in cents.
cost_of(energy, price) == RoundDiv(energy * price, UnitsPerKwh)

\* -------------------------------------------------------------------- rules
\* A rule as async_statistics reads it: CONF_NAME, CONF_STATISTIC_ID,
\* CONF_RULE_START_TIME, CONF_RULE_END_TIME, CONF_RULE_PRICE and "disabled".
Rule(name, start, end, price, disabled) ==
    [name |-> name, statistic_id |-> "enedis:pdl_" \o name,
     rule_start_time |-> start, rule_end_time |-> end,
     rule_price |-> price, disabled |-> disabled]

\* The rule of the history service without its flag "disabled".
history_rules_enabled(cost) == << Rule("consumption", Midnight, Midnight, cost, FALSE) >>

\* The rule of async_service_load_datas_history: the whole day, disabled.
history_rules(cost) == << Rule("consumption", Midnight, Midnight, cost, TRUE) >>

\* The whole-day rule of a direction without custom rules.
default_rules(cost) == << Rule("consumption", Midnight, Midnight, cost, FALSE) >>

\* Custom rules: one rule per configured interval, named after its pricing.
custom_rule(rule_name, start, end, price) ==
    Rule("consumption_" \o rule_name, start, end, price, FALSE)

\* The rule of the production direction: the whole day at entry.options[PC].
production_rules(cost) == << Rule("production", Midnight, Midnight, cost, FALSE) >>

\* entry.options as get_mode reads it: CONF_PRODUCTION and CONF_CONSUMTPION (a
\* query, or "off"), CONF_RULES (the custom rules, in the order of the dict),
\* PC and CC (the flat prices).
ConfiguredRules ==
    { [rule_name |-> "hp", rule_start_time |-> T0600, rule_end_time |-> T2200,
       rule_price |-> 15],
      [rule_name |-> "hc", rule_start_time |-> T2200, rule_end_time |-> T0600,
       rule_price |-> 10] }

Entries ==
    [ production : {"off", "production_daily", "production_detail"},
      consumption : {"off", "consumption_daily", "consumption_detail"},
      rules : UNION { [1 .. k -> ConfiguredRules] : k \in 0 .. MaxCustomRules },
      pc : {0, 8},
      cc : {15} ]

\* The rules of one custom interval entry each.
datas_rules(entry) ==
    [ i \in 1 .. Len(entry.rules) |->
        custom_rule(entry.rules[i].rule_name, entry.rules[i].rule_start_time,
                    entry.rules[i].rule_end_time, entry.rules[i].rule_price) ]

\* get_mode that adds the whole-day consumption rule to the custom rules.
get_mode_with_default(entry) ==
    (IF entry.production \in {"production_daily", "production_detail"}
     THEN << [query |-> entry.production,
              start |-> IF entry.production = "production_daily" THEN 365 ELSE 6,
              rules |-> production_rules(entry.pc)] >>
     ELSE << >>)
    \o (IF entry.consumption \in {"consumption_daily", "consumption_detail"}
        THEN << [query |-> entry.consumption,
                 start |-> IF entry.consumption = "consumption_daily" THEN 365 ELSE 6,
                 rules |-> IF entry.consumption = "consumption_detail"
                           THEN default_rules(entry.cc) \o datas_rules(entry)
                           ELSE default_rules(entry.cc)] >>
        ELSE << >>)

\* get_mode: the list of collects, each a query, the days its period reaches
\* back and its rules.
get_mode(entry) ==
    (IF entry.production \in {"production_daily", "production_detail"}
     THEN << [query |-> entry.production,
              start |-> IF entry.production = "production_daily" THEN 365 ELSE 6,
              rules |-> production_rules(entry.pc)] >>
     ELSE << >>)
    \o (IF entry.consumption = "consumption_daily"
           \/ (entry.consumption = "consumption_detail" /\ Len(entry.rules) = 0)
        THEN << [query |-> entry.consumption,
                 start |-> IF entry.consumption = "consumption_daily" THEN 365 ELSE 6,
                 rules |-> default_rules(entry.cc)] >>
        ELSE IF entry.consumption = "consumption_detail" /\ Len(entry.rules) > 0
        THEN << [query |-> entry.consumption, start |-> 6, rules |-> datas_rules(entry)] >>
        ELSE << >>)

\* The day colours of the tempo pricing, a colour given for the day or none,
\* and pricings: a flat price or none, and the prices of some colours.
Colors == {"BLUE", "WHITE", "RED"}
ColorTokens == { << >> } \cup { << c >> : c \in Colors }
Pricings ==
    [ price : { << >>, << 15 >> },
      price_table : { << >>, << [BLUE |-> 10] >>,
                      << [BLUE |-> 10, WHITE |-> 12, RED |-> 30] >> } ]

\* The price of a rule for the day: the price of the day's colour when the
\* colour is given and the table defines it, else the flat price, else 0.
resolve_price(pricing, color) ==
    IF color # << >> /\ pricing.price_table # << >>
       /\ color[1] \in DOMAIN pricing.price_table[1]
    THEN pricing.price_table[1][color[1]]
    ELSE IF pricing.price # << >> THEN pricing.price[1]
    ELSE 0

\* The rule sets of the model: the default and the history rule, peak hours with
\* off-peak hours as one window over midnight, off-peak hours as two windows of
\* one name, two overlapping windows of one name, and single windows of the
\* remaining shapes.
RuleSets ==
    { default_rules(15), default_rules(0), history_rules(15),
      << custom_rule("hp", T0600, T2200, 15), custom_rule("hc", T2200, T0600, 10) >>,
      << custom_rule("hc", Midnight, T0600, 10), custom_rule("hc", T2200, Midnight, 10) >>,
      << custom_rule("hc", Midnight, T0600, 10), custom_rule("hc", Midnight, T2200, 10) >>,
      << custom_rule("w", Midnight, T2200, 15) >>,
      << custom_rule("w", T0600, Midnight, 15) >>,
      << custom_rule("w", T0600, T0600, 15) >> }

\* ----------------------------------------------------------------- datasets
NoTag == << >>
PT30M == << "P", "T", "3", "0", "M" >>
PT5M == << "P", "T", "5", "M" >>
PT120M == << "P", "T", "1", "2", "0", "M" >>
Tags == { PT30M, PT5M, PT120M }
Values == {0, 1000}

Reading(d, c, v, tag) ==
    [date |-> d, clock |-> c, value |-> v, interval_length |-> tag]

Ascending(ds) ==
    \A i \in 1 .. (Len(ds) - 1) : Instant(date_of(ds[i])) < Instant(date_of(ds[i + 1]))

\* Daily or hourly readings without a duration tag, of any value.
PlainReadings == { Reading(d, c, v, NoTag) : d \in Dates, c \in ClockSet, v \in Values }

\* Readings that carry a duration tag.
TaggedReadings == { Reading(d, c, 1000, t) : d \in Dates, c \in ClockSet, t \in Tags }

SeqsUpTo(S, n) == UNION { [1 .. k -> S] : k \in 0 .. n }

\* Daily readings of a value that is no multiple of 1000 Wh.
DailyReadings == { Reading(d, Midnight, 1030, NoTag) : d \in Dates }

\* Readings without the key "value".
MalformedReadings ==
    { [date |-> d, clock |-> Midnight, interval_length |-> NoTag] : d \in Dates }

\* What the gateway may return: MaxReadings readings at most, in ascending
\* order, all plain, or one reading with a duration tag, or daily readings of
\* which some may lack their value.
Datasets ==
    { e \in SeqsUpTo(PlainReadings, MaxReadings) : Ascending(e) }
      \cup { << r >> : r \in TaggedReadings }
      \cup { e \in SeqsUpTo(DailyReadings \cup MalformedReadings, MaxReadings) :
                Ascending(e) }

\* One day of the load curve: 48 half-hour readings of 1000 Wh, the first at
\* `first` minutes after 00:00 of date 0.
load_curve_day(first) ==
    [ i \in 1 .. 48 |->
        LET m == first + 30 * (i - 1)
        IN  Reading(m \div MinutesPerDay, m % MinutesPerDay, 1000, PT30M) ]

LoadCurves == { load_curve_day(0), load_curve_day(30) }

\* -------------------------------------------------------------------- state
VARIABLES
    rules,              \* the rules of the entry (configuration)
    gateway,            \* the readings the gateway returned last
    store,              \* the statistics table: rows [statistic_id, start, state, sum]
    pending,            \* executor jobs issued and not yet run, oldest first
    pc,                 \* "idle", "rule", "loop", "insert": where the run is;
                        \* "raised", "value_error", "store_error": the exception
                        \* that ended it
    runs,               \* refresh cycles started
    datas_collected,    \* async_statistics: the dataset of the run
    global_statistics,  \* async_statistics: name -> summary
    collects,           \* async_statistics: the buckets by name, in insertion order
    ri,                 \* index of the rule being processed
    di,                 \* index of the reading being processed
    summary,            \* running sum of the rule
    last_stats_time,    \* day of the last stored row, None as << >>
    ref_date,           \* reference datetime of the open bucket, None as << >>
    value,              \* energy of the open bucket
    branch,             \* history: what the last loop iteration did
    members,            \* history: indices of the readings in the open bucket
    seeds,              \* history: the sums read from the store in this run
    admitted,           \* history: <<rule, reading>> pairs added to a bucket in this run
    replay,             \* history: this run repeats the dataset of the run before, whose
                        \*          appends were all in the table when this run started
    appended,           \* history: the appends issued by the last finished run
    fetch_error,        \* history: the gateway raised EnedisException in this run
    period,             \* history: the period of the last call of the history service
    overlap,            \* a second refresh cycle running beside the first, << >> if none
    config_entry,       \* the options of the config entry get_mode reads, << >> if none
    modes,              \* what get_mode returned, as a list of one value, << >> before
    clear_call,         \* history: the statistic id of the last call of the clear
                        \*          service, as a list of one value, << >> before
    options_flow        \* the config flow and the options flow of the entry, as a
                        \* list of one value, << >> if none

vars == << rules, gateway, store, pending, pc, runs, datas_collected,
           global_statistics, collects, ri, di, summary, last_stats_time,
           ref_date, value, branch, members, seeds, admitted, replay,
           appended, fetch_error, period, overlap, config_entry, modes,
                    clear_call, options_flow >>

\* ---------------------------------------------------- the statistics table
\* get_last_statistics(hass, 1, statistic_id, True, "sum"): the row of the
\* latest start, as a list of one row, or nothing.
get_last_statistics(table, statistic_id) ==
    LET rows == { r \in table : r.statistic_id = statistic_id }
    IN  IF rows = {} THEN << >>
        ELSE << CHOOSE r \in rows :
                  \A o \in rows : Instant(o.start) <= Instant(r.start) >>

\* async_add_external_statistics(hass, metadata, statistics): rows are
\* inserted, a row of the same statistic id and start is replaced.
add_external_statistics(table, job) ==
    LET fresh == { [statistic_id |-> job.statistic_id, start |-> job.statistics[i].start,
                    state |-> job.statistics[i].state, sum |-> job.statistics[i].sum] :
                   i \in 1 .. Len(job.statistics) }
    IN  { r \in table :
            ~ \E f \in fresh : f.statistic_id = r.statistic_id /\ f.start = r.start }
          \cup fresh

\* ------------------------------------------------------- async_statistics
\* collects is a dict by name; the model keeps it as the sequence of its
\* entries in insertion order.  An entry holds the name, the statistic id, the
\* price and "statistics", the dict by date_ref of
\* (value, summary, cost, cost_summary), again in insertion order.
index_of_name(c, name) ==
    IF \E i \in 1 .. Len(c) : c[i].name = name
    THEN CHOOSE i \in 1 .. Len(c) : c[i].name = name
    ELSE 0

index_of_date(statistics, date_ref) ==
    IF \E i \in 1 .. Len(statistics) : statistics[i].date_ref = date_ref
    THEN CHOOSE i \in 1 .. Len(statistics) : statistics[i].date_ref = date_ref
    ELSE 0

\* collects.get(name) is None -> collects.update({name: {...}})
collects_setdefault(c, rule) ==
    IF index_of_name(c, rule.name) = 0
    THEN Append(c, [name |-> rule.name, statistic_id |-> rule.statistic_id,
                    rule_price |-> rule.rule_price, statistics |-> << >>])
    ELSE c

\* dict.update({date_ref: item}): a present key keeps its place.
dict_update(statistics, item) ==
    LET i == index_of_date(statistics, item.date_ref)
    IN  IF i = 0 THEN Append(statistics, item)
        ELSE [statistics EXCEPT ![i] = item]

\* The bucket of `ref` is finalized with `val` (the new-day branch and the end
\* of the stream share this code): the value already buffered for the date is
\* merged, the summary grows, the costs are derived, the dict is updated.
\* Gives the new collects and the new summary.
finalize(c, rule, ref, val, summ) ==
    LET n == index_of_name(c, rule.name)
        date_ref == dateatmidnight(ref)
        k == index_of_date(c[n].statistics, date_ref)
        merged == IF k # 0 THEN c[n].statistics[k].value + val ELSE val
        new_summary == summ + merged
        cost == cost_of(merged, rule.rule_price)
        cost_summary == cost_of(new_summary, rule.rule_price)
        item == [date_ref |-> date_ref, value |-> merged, summary |-> new_summary,
                 cost |-> cost, cost_summary |-> cost_summary]
    IN  [collects |-> [c EXCEPT ![n].statistics = dict_update(@, item)],
         summary |-> new_summary]

\* A guard that lets every reading through.
dedup_guard_admitting(stats_time, date_collected) == "admit"

\* The de-duplication guard,
\*   last_stats_time is not None
\*   and date_collected <= last_stats_time + timedelta(days=1):
\* last_stats_time is the str that strftime("%Y-%m-%d") gave, and adding a
\* timedelta to a str raises TypeError.
dedup_guard(stats_time, date_collected) ==
    IF stats_time = << >> THEN "admit" ELSE "TypeError"

\* The midnight branch taken for a bucket opened at 00:00 instead.
is_midnight_continuation_inverted(date_collected, ref) ==
    TimeOf(date_collected) = Midnight /\ TimeOf(ref) = Midnight

\* The two tests of the midnight branch.
is_midnight_continuation(date_collected, ref) ==
    TimeOf(date_collected) = Midnight /\ TimeOf(ref) # Midnight

\* Which branch one reading takes in the loop over datas_collected.
classify(rule, data, stats_time, ref) ==
    LET date_collected == date_of(data)
    IN  IF ~ has_range(date_collected, rule.rule_start_time, rule.rule_end_time)
        THEN "skip_range"
        ELSE IF dedup_guard(stats_time, date_collected) = "TypeError" THEN "raise"
        ELSE IF dedup_guard(stats_time, date_collected) = "skip" THEN "skip_guard"
        ELSE IF ref = << >> THEN "new_loop"
        ELSE IF DayOfMonth(date_collected) = DayOfMonth(ref[1]) THEN "same_day"
        ELSE IF is_midnight_continuation(date_collected, ref[1]) THEN "midnight"
        ELSE "new_day"

\* int(data.get("value")): a reading without the key gives None, and int(None)
\* raises TypeError; the test `is None` of the result is never true.
int_of_value(data) ==
    IF "value" \in DOMAIN data THEN "int" ELSE "TypeError"

\* value_collected = int(value) / 1000 * interval
value_collected_of(data) == data.value * weighted_interval(data.interval_length)

\* ------------------------------------- async_statistics between two awaits
\* One iteration of `for data in datas_collected` on the locals of the rule:
\* st is [status, collects, summary, ref_date, value].
loop_iteration(rule, data, stats_time, st) ==
    IF int_of_value(data) # "int" THEN [st EXCEPT !.status = "value_error"]
    ELSE LET b == classify(rule, data, stats_time, st.ref_date)
             value_collected == value_collected_of(data)
             fin == finalize(st.collects, rule, st.ref_date[1], st.value, st.summary)
         IN  CASE b = "raise" -> [st EXCEPT !.status = "raised"]
               [] b \in {"skip_range", "skip_guard"} -> st
               [] b = "new_loop" ->
                    [st EXCEPT !.value = @ + value_collected, !.ref_date = << date_of(data) >>]
               [] b \in {"same_day", "midnight"} -> [st EXCEPT !.value = @ + value_collected]
               [] OTHER ->
                    [st EXCEPT !.collects = fin.collects, !.summary = fin.summary,
                               !.value = value_collected, !.ref_date = << date_of(data) >>]

\* for data in datas_collected, until the end or the first exception.
RECURSIVE loop_over(_, _, _, _)
loop_over(rule, datas, stats_time, st) ==
    IF datas = << >> \/ st.status # "ok" THEN st
    ELSE loop_over(rule, Tail(datas), stats_time,
                   loop_iteration(rule, Head(datas), stats_time, st))

\* After the loop over the dataset: the exception of the loop, or the open
\* bucket finalized if value > 0 and the summary of the rule in
\* global_statistics unless the rule is disabled.
after_loop(rule, st, gs) ==
    LET fin == IF st.value > 0
               THEN finalize(st.collects, rule, st.ref_date[1], st.value, st.summary)
               ELSE [collects |-> st.collects, summary |-> st.summary]
    IN  IF st.status # "ok"
        THEN [status |-> st.status, collects |-> st.collects, global_statistics |-> gs]
        ELSE [status |-> "ok", collects |-> fin.collects,
              global_statistics |->
                IF ~ rule.disabled
                THEN [ n \in (DOMAIN gs) \cup {rule.name} |->
                         IF n = rule.name THEN fin.summary ELSE gs[n] ]
                ELSE gs]

\* The body of `for rule in rules` for one rule, from the read of the table to
\* the update of global_statistics: c and gs are collects and
\* global_statistics before, the result holds them after.
rule_body(rule, table, datas, c, gs) ==
    LET last_stats == get_last_statistics(table, rule.statistic_id)
    IN  after_loop(rule,
                   loop_over(rule, datas,
                             IF last_stats = << >> THEN << >>
                             ELSE << last_stats[1].start.date >>,
                             [status |-> "ok", collects |-> collects_setdefault(c, rule),
                              summary |-> IF last_stats = << >> THEN 0
                                          ELSE last_stats[1].sum,
                              ref_date |-> << >>, value |-> 0]),
                   gs)

\* async_statistics up to its final loop, every read of the table seeing the
\* same rows: the collects and global_statistics of the run, or the exception.
RECURSIVE rules_loop(_, _, _, _, _)
RECURSIVE next_rule(_, _, _, _)
next_rule(rs, table, datas, after) ==
    IF after.status # "ok" THEN after
    ELSE rules_loop(Tail(rs), table, datas, after.collects, after.global_statistics)

rules_loop(rs, table, datas, c, gs) ==
    IF rs = << >> THEN [status |-> "ok", collects |-> c, global_statistics |-> gs]
    ELSE next_rule(rs, table, datas, rule_body(Head(rs), table, datas, c, gs))

\* ------------------------------------------------------------------ actions
Init ==
    /\ rules \in RuleSets
    /\ gateway = << >>
    /\ store = {}
    /\ pending = << >>
    /\ pc = "idle"
    /\ runs = 0
    /\ datas_collected = << >>
    /\ global_statistics = << >>
    /\ collects = << >>
    /\ ri = 1
    /\ di = 1
    /\ summary = 0
    /\ last_stats_time = << >>
    /\ ref_date = << >>
    /\ value = 0
    /\ branch = "none"
    /\ members = {}
    /\ seeds = << >>
    /\ admitted = {}
    /\ replay = FALSE
    /\ appended = << >>
    /\ fetch_error = FALSE
    /\ period = << >>
    /\ overlap = << >>
    /\ config_entry = << >>
    /\ modes = << >>
    /\ clear_call = << >>
    /\ options_flow = << >>

\* datas_collected that holds readings also when the gateway raised.
interval_reading_stale(answer, datas) == datas

\* datas_collected of async_fetch_datas: [] unless the gateway answered.
interval_reading(answer, datas) == IF answer = "datas" THEN datas ELSE << >>

\* async_fetch_datas: the gateway answers with its readings, or raises
\* EnedisException and the dataset stays empty; async_statistics starts.
\* The gateway answers every cycle with the readings of its first answer.
Fetch ==
    /\ pc \in {"idle", "raised", "value_error", "store_error"}
    /\ runs < MaxRuns
    /\ ~ rules[1].disabled
    /\ \E answer \in {"datas", "EnedisException"} :
         \E datas \in (IF gateway = << >> THEN Datasets \cup LoadCurves ELSE {gateway}) :
            /\ gateway' = (IF answer = "datas" THEN datas ELSE gateway)
            /\ datas_collected' = interval_reading(answer, datas)
            /\ fetch_error' = (answer = "EnedisException")
    /\ runs' = runs + 1
    /\ global_statistics' = << >>
    /\ collects' = << >>
    /\ ri' = 1
    /\ di' = 1
    /\ pc' = "rule"
    /\ branch' = "none"
    /\ members' = {}
    /\ seeds' = << >>
    /\ admitted' = {}
    /\ replay' = (runs >= 1 /\ pc = "idle" /\ pending = << >>
                   /\ datas_collected # << >> /\ datas_collected' = datas_collected)
    /\ appended' = << >>
    /\ period' = << >>
    /\ UNCHANGED << rules, store, pending, summary, last_stats_time, ref_date, value,
                    overlap, config_entry, modes,
                    clear_call, options_flow >>

\* statistics_during_period(hass, dateatmidnight(start), None, [statistic_id],
\* "hour"): the rows of the statistic id from `start` on; the date of the first
\* of them, or nothing.
first_stat_date(table, statistic_id, start) ==
    LET rows == { r \in table : r.statistic_id = statistic_id /\ r.start.date >= start }
    IN  IF rows = {} THEN << >>
        ELSE << (CHOOSE r \in rows :
                   \A o \in rows : Instant(r.start) <= Instant(o.start)).start.date >>

\* call.data[CONF_AFTER]: the history is asked from the first day on or for the
\* last day; once the gateway has answered, from the first day on.
HistoryStarts == { 0, NumDays - 1 }

\* The readings the gateway holds for the days from `after` to `before`.
readings_between(timeline, after, before) ==
    SelectSeq(timeline, LAMBDA r : after <= r.date /\ r.date <= before)

\* async_service_load_datas_history: the disabled whole-day rule, over the
\* period from call.data[CONF_AFTER] to the date of the first row the table
\* holds from there on, or to call.data[CONF_BEFORE] (the last day) when it
\* holds none; then async_fetch_datas.
LoadHistory ==
    /\ pc \in {"idle", "raised", "value_error", "store_error"}
    /\ runs < MaxRuns
    /\ rules[1].disabled
    /\ \E answer \in {"datas", "EnedisException"} :
         \E timeline \in (IF gateway = << >> THEN Datasets \cup LoadCurves ELSE {gateway}) :
           \E after \in (IF gateway = << >> THEN HistoryStarts ELSE {0}) :
             LET stat == first_stat_date(store, rules[1].statistic_id, after)
                 end == IF stat # << >> THEN stat[1] ELSE NumDays - 1
                 datas == readings_between(timeline, after, end)
             IN  /\ gateway' = (IF answer = "datas" THEN timeline ELSE gateway)
                 /\ datas_collected' = interval_reading(answer, datas)
                 /\ fetch_error' = (answer = "EnedisException")
                 /\ period' = << [after |-> after, end |-> end, persisted |-> stat # << >>] >>
    /\ runs' = runs + 1
    /\ global_statistics' = << >>
    /\ collects' = << >>
    /\ ri' = 1
    /\ di' = 1
    /\ pc' = "rule"
    /\ branch' = "none"
    /\ members' = {}
    /\ seeds' = << >>
    /\ admitted' = {}
    /\ replay' = (runs >= 1 /\ pc = "idle" /\ pending = << >>
                   /\ datas_collected # << >> /\ datas_collected' = datas_collected)
    /\ appended' = << >>
    /\ UNCHANGED << rules, store, pending, summary, last_stats_time, ref_date, value,
                    overlap, config_entry, modes,
                    clear_call, options_flow >>

\* for rule in rules: the entry of collects, then the last row of the table.
\* The read of the table is awaited without a handler: when the recorder raises,
\* the exception leaves async_statistics.
BeginRule ==
    /\ pc = "rule"
    /\ \E read \in {"rows", "raise"} :
         LET rule == rules[ri]
             last_stats == get_last_statistics(store, rule.statistic_id)
             last_costs == get_last_statistics(store, rule.statistic_id \o "_cost")
         IN  /\ collects' = collects_setdefault(collects, rule)
             /\ IF read = "rows"
                THEN /\ summary' = (IF last_stats = << >> THEN 0 ELSE last_stats[1].sum)
                     /\ last_stats_time' =
                          (IF last_stats = << >> THEN << >>
                           ELSE << last_stats[1].start.date >>)
                     /\ seeds' = Append(seeds,
                          [statistic_id |-> rule.statistic_id, sum |-> summary',
                           cost_sum |-> IF last_costs = << >> THEN 0
                                        ELSE last_costs[1].sum])
                     /\ ref_date' = << >>
                     /\ value' = 0
                     /\ pc' = "loop"
                ELSE /\ pc' = "store_error"
                     /\ UNCHANGED << summary, last_stats_time, seeds, ref_date, value >>
    /\ di' = 1
    /\ branch' = "none"
    /\ members' = {}
    /\ UNCHANGED << rules, gateway, store, pending, runs, datas_collected,
                    global_statistics, ri, admitted, replay, appended, fetch_error, period, overlap, config_entry, modes,
                    clear_call, options_flow >>

\* One iteration of: for data in datas_collected.
ProcessReading ==
    /\ pc = "loop"
    /\ di <= Len(datas_collected)
    /\ int_of_value(datas_collected[di]) = "int"
    /\ LET rule == rules[ri]
           data == datas_collected[di]
           value_collected == value_collected_of(data)
           date_collected == date_of(data)
           b == classify(rule, data, last_stats_time, ref_date)
           fin == finalize(collects, rule, ref_date[1], value, summary)
       IN  /\ branch' = b
           /\ pc' = (IF b = "raise" THEN "raised" ELSE "loop")
           /\ value' = (CASE b \in {"new_loop", "same_day", "midnight"} -> value + value_collected
                          [] b = "new_day" -> value_collected
                          [] OTHER -> value)
           /\ ref_date' = (IF b \in {"new_loop", "new_day"} THEN << date_collected >>
                           ELSE ref_date)
           /\ collects' = (IF b = "new_day" THEN fin.collects ELSE collects)
           /\ summary' = (IF b = "new_day" THEN fin.summary ELSE summary)
           /\ members' = (CASE b \in {"new_loop", "same_day", "midnight"} -> members \cup {di}
                            [] b = "new_day" -> {di}
                            [] OTHER -> members)
           /\ admitted' = (IF b \in {"new_loop", "same_day", "midnight", "new_day"}
                           THEN admitted \cup { << ri, di >> } ELSE admitted)
    /\ di' = di + 1
    /\ UNCHANGED << rules, gateway, store, pending, runs, datas_collected,
                    global_statistics, ri, last_stats_time, seeds, replay, appended,
                    fetch_error, period, overlap, config_entry, modes,
                    clear_call, options_flow >>

\* The iteration of a reading whose value int() does not take: the exception
\* leaves the loop and async_statistics.
ValueError ==
    /\ pc = "loop"
    /\ di <= Len(datas_collected)
    /\ int_of_value(datas_collected[di]) # "int"
    /\ pc' = "value_error"
    /\ branch' = "none"
    /\ UNCHANGED << rules, gateway, store, pending, runs, datas_collected,
                    global_statistics, collects, ri, di, summary, last_stats_time,
                    ref_date, value, members, seeds, admitted, replay, appended,
                    fetch_error, period, overlap, config_entry, modes,
                    clear_call, options_flow >>

\* The end of the loop finalizing every open bucket, an empty one included.
EndRule_flush_empty ==
    /\ pc = "loop"
    /\ di > Len(datas_collected)
    /\ LET rule == rules[ri]
           fin == IF ref_date # << >>
                  THEN finalize(collects, rule, ref_date[1], value, summary)
                  ELSE [collects |-> collects, summary |-> summary]
       IN  /\ collects' = fin.collects
           /\ summary' = fin.summary
           /\ global_statistics' =
                (IF ~ rule.disabled
                 THEN [ n \in (DOMAIN global_statistics) \cup {rule.name} |->
                          IF n = rule.name THEN fin.summary ELSE global_statistics[n] ]
                 ELSE global_statistics)
    /\ ri' = ri + 1
    /\ pc' = (IF ri < Len(rules) THEN "rule" ELSE "insert")
    /\ branch' = "none"
    /\ UNCHANGED << rules, gateway, store, pending, runs, datas_collected, di,
                    last_stats_time, ref_date, value, members, seeds, admitted,
                    replay, appended, fetch_error, period, overlap, config_entry, modes,
                    clear_call, options_flow >>

\* After the loop: the open bucket is finalized if value > 0, the summary of
\* the rule goes to global_statistics unless the rule is disabled.
EndRule ==
    /\ pc = "loop"
    /\ di > Len(datas_collected)
    /\ LET rule == rules[ri]
           fin == IF value > 0
                  THEN finalize(collects, rule, ref_date[1], value, summary)
                  ELSE [collects |-> collects, summary |-> summary]
       IN  /\ collects' = fin.collects
           /\ summary' = fin.summary
           /\ global_statistics' =
                (IF ~ rule.disabled
                 THEN [ n \in (DOMAIN global_statistics) \cup {rule.name} |->
                          IF n = rule.name THEN fin.summary ELSE global_statistics[n] ]
                 ELSE global_statistics)
    /\ ri' = ri + 1
    /\ pc' = (IF ri < Len(rules) THEN "rule" ELSE "insert")
    /\ branch' = "none"
    /\ UNCHANGED << rules, gateway, store, pending, runs, datas_collected, di,
                    last_stats_time, ref_date, value, members, seeds, admitted,
                    replay, appended, fetch_error, period, overlap, config_entry, modes,
                    clear_call, options_flow >>

\* The two appends issued for every entry of collects, with or without
\* buckets.
jobs_of_unconditional(entry) ==
    << [statistic_id |-> entry.statistic_id,
        statistics |-> [ i \in 1 .. Len(entry.statistics) |->
                           [start |-> entry.statistics[i].date_ref,
                            state |-> entry.statistics[i].value,
                            sum |-> entry.statistics[i].summary] ]],
       [statistic_id |-> entry.statistic_id \o "_cost",
        statistics |-> [ i \in 1 .. Len(entry.statistics) |->
                           [start |-> entry.statistics[i].date_ref,
                            state |-> entry.statistics[i].cost,
                            sum |-> entry.statistics[i].cost_summary] ]] >>

\* The statistics and the costs of one entry of collects, as the two executor
\* jobs the final loop issues for it (none when the entry has no bucket).
jobs_of(entry) ==
    LET stats == [ i \in 1 .. Len(entry.statistics) |->
                     [start |-> entry.statistics[i].date_ref,
                      state |-> entry.statistics[i].value,
                      sum |-> entry.statistics[i].summary] ]
        costs == [ i \in 1 .. Len(entry.statistics) |->
                     [start |-> entry.statistics[i].date_ref,
                      state |-> entry.statistics[i].cost,
                      sum |-> entry.statistics[i].cost_summary] ]
    IN  IF stats # << >> /\ costs # << >>
        THEN << [statistic_id |-> entry.statistic_id, statistics |-> stats],
                [statistic_id |-> entry.statistic_id \o "_cost", statistics |-> costs] >>
        ELSE << >>

RECURSIVE all_jobs(_)
all_jobs(c) == IF c = << >> THEN << >> ELSE jobs_of(Head(c)) \o all_jobs(Tail(c))

\* for name, values in collects.items(): the appends are handed to the
\* executor and not awaited; global_statistics is returned.
Insert ==
    /\ pc = "insert"
    /\ appended' = all_jobs(collects)
    /\ pending' = pending \o appended'
    /\ pc' = "idle"
    /\ UNCHANGED << rules, gateway, store, runs, datas_collected, global_statistics,
                    collects, ri, di, summary, last_stats_time, ref_date, value,
                    branch, members, seeds, admitted, replay, fetch_error, period, overlap, config_entry, modes,
                    clear_call, options_flow >>

\* The executor runs the job issued first.  The table is read only where async_statistics
\* awaits (get_last_statistics), so a job running during the synchronous code
\* of a rule is the same job running at the next await, and a job running
\* while the gateway answers is the same job running before the fetch.
ExecutorJob ==
    /\ pc \in {"idle", "raised", "value_error", "store_error"} \/ (pc = "rule" /\ ri > 1)
    /\ pending # << >>
    /\ store' = add_external_statistics(store, Head(pending))
    /\ pending' = Tail(pending)
    /\ UNCHANGED << rules, gateway, pc, runs, datas_collected, global_statistics,
                    collects, ri, di, summary, last_stats_time, ref_date, value,
                    branch, members, seeds, admitted, replay, appended, fetch_error, period, overlap, config_entry, modes,
                    clear_call, options_flow >>

\* ------------------------------------------------ two refresh cycles at once
\* A second call of async_fetch_datas arrives while the first, which has its
\* dataset, waits for its first read of the table; the gateway gives the second
\* the same dataset.  No append is outstanding.
OverlapStart ==
    /\ overlap = << >>
    /\ pc = "rule" /\ ri = 1
    /\ pending = << >>
    /\ overlap' = << [pc |-> "rule", ri |-> 1, collects |-> << >>, table |-> store,
                      datas |-> datas_collected] >>
    /\ UNCHANGED << rules, gateway, store, pending, pc, runs, datas_collected,
                    global_statistics, collects, ri, di, summary, last_stats_time,
                    ref_date, value, branch, members, seeds, admitted, replay,
                    appended, fetch_error, period, config_entry, modes,
                    clear_call, options_flow >>

\* What the body of a rule leaves of the second cycle o: the exception, the
\* next rule, or after the last rule the appends it issues.
overlap_step(o, last, after) ==
    IF after.status # "ok"
    THEN [overlap |-> [o EXCEPT !.pc = after.status, !.collects = after.collects],
          jobs |-> << >>]
    ELSE IF ~ last
    THEN [overlap |-> [o EXCEPT !.ri = @ + 1, !.collects = after.collects],
          jobs |-> << >>]
    ELSE [overlap |-> [o EXCEPT !.pc = "done", !.collects = after.collects],
          jobs |-> all_jobs(after.collects)]

\* The second cycle runs from one await to the next while the first is
\* suspended at an await or has returned: it reads the table for its rule and
\* loops over the dataset; after its last rule it issues its appends.
OverlapRule ==
    /\ overlap # << >>
    /\ overlap[1].pc = "rule"
    /\ pc \in {"rule", "idle", "raised", "value_error", "store_error"}
    /\ \E read \in {"rows", "raise"} :
         LET o == overlap[1]
             step == IF read = "raise"
                     THEN [overlap |-> [o EXCEPT !.pc = "store_error"], jobs |-> << >>]
                     ELSE overlap_step(o, o.ri = Len(rules),
                                       rule_body(rules[o.ri], store, o.datas, o.collects,
                                                 << >>))
         IN  /\ overlap' = << step.overlap >>
             /\ pending' = pending \o step.jobs
    /\ UNCHANGED << rules, gateway, store, pc, runs, datas_collected,
                    global_statistics, collects, ri, di, summary, last_stats_time,
                    ref_date, value, branch, members, seeds, admitted, replay,
                    appended, fetch_error, period, config_entry, modes,
                    clear_call, options_flow >>

\* The executor runs an append of the second cycle while the first still waits
\* for its first read.
OverlapExecutorJob ==
    /\ overlap # << >>
    /\ pc = "rule" /\ ri = 1
    /\ pending # << >>
    /\ store' = add_external_statistics(store, Head(pending))
    /\ pending' = Tail(pending)
    /\ UNCHANGED << rules, gateway, pc, runs, datas_collected, global_statistics,
                    collects, ri, di, summary, last_stats_time, ref_date, value,
                    branch, members, seeds, admitted, replay, appended, fetch_error,
                    period, overlap, config_entry, modes,
                    clear_call, options_flow >>

Next ==
    \/ Fetch
    \/ LoadHistory
    \/ BeginRule
    \/ ProcessReading
    \/ ValueError
    \/ EndRule
    \/ Insert
    \/ ExecutorJob

Spec == Init /\ [][Next]_vars

\* ---------------------------------------------------------------- get_mode
\* A config entry whose options are set, before any refresh cycle.
InitMode ==
    /\ config_entry \in { << e >> : e \in Entries }
    /\ modes = << >>
    /\ rules = << >>
    /\ gateway = << >>
    /\ store = {}
    /\ pending = << >>
    /\ pc = "idle"
    /\ runs = 0
    /\ datas_collected = << >>
    /\ global_statistics = << >>
    /\ collects = << >>
    /\ ri = 1
    /\ di = 1
    /\ summary = 0
    /\ last_stats_time = << >>
    /\ ref_date = << >>
    /\ value = 0
    /\ branch = "none"
    /\ members = {}
    /\ seeds = << >>
    /\ admitted = {}
    /\ replay = FALSE
    /\ appended = << >>
    /\ fetch_error = FALSE
    /\ period = << >>
    /\ overlap = << >>
    /\ clear_call = << >>
    /\ options_flow = << >>

\* The coordinator asks get_mode for the collects of the entry.
GetMode ==
    /\ config_entry # << >>
    /\ modes = << >>
    /\ modes' = << get_mode(config_entry[1]) >>
    /\ UNCHANGED << rules, gateway, store, pending, pc, runs, datas_collected,
                    global_statistics, collects, ri, di, summary, last_stats_time,
                    ref_date, value, branch, members, seeds, admitted, replay,
                    appended, fetch_error, period, overlap, config_entry,
                    clear_call, options_flow >>

SpecMode == InitMode /\ [][GetMode]_vars

\* The appends of a list of jobs, oldest first.
RECURSIVE apply_jobs(_, _)
apply_jobs(table, jobs) ==
    IF jobs = << >> THEN table
    ELSE apply_jobs(add_external_statistics(table, Head(jobs)), Tail(jobs))

\* The table after one run alone on the dataset: its appends when it returns,
\* the table as it was when it raises.
store_after(table, run) ==
    IF run.status = "ok" THEN apply_jobs(table, all_jobs(run.collects)) ELSE table

single_run_store(rs, table, datas) ==
    store_after(table, rules_loop(rs, table, datas, << >>, << >>))

\* An earlier refresh cycle, taken as a whole: it ran alone on the readings of
\* the gateway, from the empty table, and the executor has run its appends.
EarlierCycleOn(answers) ==
    /\ pc = "idle"
    /\ runs = 0
    /\ runs < MaxRuns
    /\ \E earlier \in answers :
         /\ gateway' = earlier
         /\ store' = single_run_store(rules, store, earlier)
    /\ runs' = runs + 1
    /\ UNCHANGED << rules, pending, pc, datas_collected, global_statistics, collects,
                    ri, di, summary, last_stats_time, ref_date, value, branch, members,
                    seeds, admitted, replay, appended, fetch_error, period, overlap,
                    config_entry, modes,
                    clear_call, options_flow >>

EarlierCycle == EarlierCycleOn(Datasets \cup LoadCurves)

\* At most one earlier cycle, then one refresh cycle (collects is empty until
\* it reads the table for its first rule) and a second cycle overlapping it.
NextOverlap ==
    \/ EarlierCycle
    \/ collects = << >> /\ Fetch
    \/ collects = << >> /\ LoadHistory
    \/ BeginRule
    \/ ProcessReading
    \/ ValueError
    \/ EndRule
    \/ Insert
    \/ ExecutorJob
    \/ OverlapStart
    \/ OverlapRule
    \/ OverlapExecutorJob

SpecOverlap == Init /\ [][NextOverlap]_vars

\* ------------------------------------------------ async_service_datas_clear
\* call.data[CONF_STATISTIC_ID] is a text, kept as the list of its characters;
\* text gives the statistic id of the table it spells.
RECURSIVE text(_)
text(chars) == IF chars = << >> THEN "" ELSE Head(chars) \o text(Tail(chars))

\* The literal "enedis:".
Enedis == << "e", "n", "e", "d", "i", "s", ":" >>

\* A test that looks for the prefix anywhere in the text.
startswith_anywhere(s, prefix) ==
    \E i \in 1 .. Len(s) :
        /\ i + Len(prefix) - 1 <= Len(s)
        /\ SubSeq(s, i, i + Len(prefix) - 1) = prefix

\* str.startswith
startswith(s, prefix) ==
    /\ Len(s) >= Len(prefix)
    /\ SubSeq(s, 1, Len(prefix)) = prefix

\* The statistic ids the service is called with: the energy and the cost series
\* of the whole-day rule, the series of the rule "hc", and two ids of other
\* sources, one of them holding "enedis:" after its first character.
PdlConsumption ==
    << "p", "d", "l", "_", "c", "o", "n", "s", "u", "m", "p", "t", "i", "o", "n" >>
StatisticIdsCalled ==
    { Enedis \o PdlConsumption,
      Enedis \o PdlConsumption \o << "_", "c", "o", "s", "t" >>,
      Enedis \o PdlConsumption \o << "_", "h", "c" >>,
      << "s", "e", "n", "s", "o", "r", ":" >> \o PdlConsumption,
      << "x" >> \o Enedis \o PdlConsumption }

\* The rows other sources keep in the statistics table.
OtherStatistics ==
    { [statistic_id |-> id, start |-> DateTime(0, Midnight), state |-> 1, sum |-> 1] :
        id \in { "sensor:pdl_consumption", "xenedis:pdl_consumption" } }

\* clear_statistics(instance, statistic_ids): the rows of the ids are removed.
clear_statistics(table, statistic_ids) ==
    { r \in table :
        ~ \E i \in 1 .. Len(statistic_ids) : r.statistic_id = text(statistic_ids[i]) }

\* The table holds the rows of other sources; no refresh cycle has run.
InitClear ==
    /\ rules \in RuleSets
    /\ gateway = << >>
    /\ store = OtherStatistics
    /\ pending = << >>
    /\ pc = "idle"
    /\ runs = 0
    /\ datas_collected = << >>
    /\ global_statistics = << >>
    /\ collects = << >>
    /\ ri = 1
    /\ di = 1
    /\ summary = 0
    /\ last_stats_time = << >>
    /\ ref_date = << >>
    /\ value = 0
    /\ branch = "none"
    /\ members = {}
    /\ seeds = << >>
    /\ admitted = {}
    /\ replay = FALSE
    /\ appended = << >>
    /\ fetch_error = FALSE
    /\ period = << >>
    /\ overlap = << >>
    /\ config_entry = << >>
    /\ modes = << >>
    /\ clear_call = << >>
    /\ options_flow = << >>

\* async_service_datas_clear: an id that does not start with "enedis:" is
\* logged and the service returns; else clear_statistics is handed to the
\* executor and not awaited.
async_service_datas_clear ==
    /\ Len(pending) < MaxClears
    /\ \E statistic_id \in StatisticIdsCalled :
         /\ clear_call' = << statistic_id >>
         /\ pending' = (IF ~ startswith(statistic_id, Enedis)
                        THEN pending
                        ELSE Append(pending, [statistic_ids |-> << statistic_id >>]))
    /\ UNCHANGED << rules, gateway, store, pc, runs, datas_collected,
                    global_statistics, collects, ri, di, summary, last_stats_time,
                    ref_date, value, branch, members, seeds, admitted, replay,
                    appended, fetch_error, period, overlap, config_entry, modes,
                    options_flow >>

\* The executor runs the clear_statistics issued first.
ClearStatisticsJob ==
    /\ pending # << >>
    /\ store' = clear_statistics(store, Head(pending).statistic_ids)
    /\ pending' = Tail(pending)
    /\ UNCHANGED << rules, gateway, pc, runs, datas_collected, global_statistics,
                    collects, ri, di, summary, last_stats_time, ref_date, value,
                    branch, members, seeds, admitted, replay, appended, fetch_error,
                    period, overlap, config_entry, modes, clear_call, options_flow >>

\* Daily readings, MaxReadings at most, in ascending order.
DailyDatasets == { e \in SeqsUpTo(DailyReadings, MaxReadings) : Ascending(e) }

\* The service is called before and after a refresh cycle that ran alone on
\* daily readings or on a day of the load curve.
NextClear ==
    \/ EarlierCycleOn(DailyDatasets \cup LoadCurves)
    \/ async_service_datas_clear
    \/ ClearStatisticsJob

SpecClear == InitClear /\ [][NextClear]_vars

\* -------------------------------------------------------------- config_flow
\* The variables the config flow and the options flow leave alone.
run_vars == << rules, gateway, store, pending, pc, runs, datas_collected,
               global_statistics, collects, ri, di, summary, last_stats_time,
               ref_date, value, branch, members, seeds, admitted, replay,
               appended, fetch_error, period, overlap, config_entry, modes,
               clear_call >>

\* The keys of a dict of pricings or of intervals are texts, kept as the lists
\* of their characters.  str(n) and int(s) for decimal numerals.
Digit(v) == CHOOSE c \in Digits : DigitValue(c) = v

RECURSIVE str(_)
str(n) == IF n < 10 THEN << Digit(n) >> ELSE str(n \div 10) \o << Digit(n % 10) >>

RECURSIVE int(_)
int(s) ==
    IF s = << >> THEN 0
    ELSE 10 * int(SubSeq(s, 1, Len(s) - 1)) + DigitValue(s[Len(s)])

\* a < b for two str: by the first character that differs, a proper prefix
\* before the longer text.
RECURSIVE str_lt(_, _)
str_lt(a, b) ==
    IF b = << >> THEN FALSE
    ELSE IF a = << >> THEN TRUE
    ELSE IF Head(a) = Head(b) THEN str_lt(Tail(a), Tail(b))
    ELSE DigitValue(Head(a)) < DigitValue(Head(b))

\* max(_datas.keys()): the greatest key as the texts compare.
max(keys) == CHOOSE k \in keys : \A o \in keys : o = k \/ str_lt(o, k)

\* id = int(max(_datas.keys())) + 1 if _datas.keys() else 1
new_id(keys) == IF keys # {} THEN int(max(keys)) + 1 ELSE 1

\* dict.update({k: v}) and dict.pop(k), a dict being a function of its keys.
dict_set(d, k, v) == [ x \in (DOMAIN d) \cup {k} |-> IF x = k THEN v ELSE d[x] ]
dict_pop(d, k) == [ x \in (DOMAIN d) \ {k} |-> d[x] ]

\* CONF_PRICE_NEW_ID and CONF_RULE_NEW_ID, the entry "add new" of a menu.
NEW_ID == << "n", "e", "w" >>

\* The settings of one direction, options[PRODUCTION] or options[CONSUMPTION]:
\* a dict whose keys CONF_SERVICE, CONF_TEMPO and CONF_PRICINGS may be missing
\* (<< >>; a service of None is kept as a missing one).
Dir(service, tempo, pricings) ==
    [service |-> service, tempo |-> tempo, pricings |-> pricings]

\* len(direction.get(CONF_PRICINGS, {}))
len_pricings(direction) ==
    IF direction.pricings = << >> THEN 0
    ELSE Cardinality(DOMAIN direction.pricings[1])

\* The default tables of const.py: one pricing "1" over the whole day, at the
\* flat default price of the direction, or with the prices of the three
\* colours of a tempo day.
WholeDay == [rule_start_time |-> Midnight, rule_end_time |-> Midnight]

DEFAULT_PRODUCTION ==
    << "1" >> :> [pricing_name |-> "Standard", pricing_cost |-> "DEFAULT_PC_PRICE",
                  colors |-> << >>, intervals |-> (<< "1" >> :> WholeDay)]

DEFAULT_CONSUMPTION ==
    << "1" >> :> [pricing_name |-> "Standard", pricing_cost |-> "DEFAULT_CC_PRICE",
                  colors |-> << >>, intervals |-> (<< "1" >> :> WholeDay)]

DEFAULT_CONSUMPTION_TEMPO ==
    << "1" >> :> [pricing_name |-> "Standard", pricing_cost |-> "tempo",
                  colors |-> << [BLUE |-> "blue", WHITE |-> "white", RED |-> "red"] >>,
                  intervals |-> (<< "1" >> :> WholeDay)]

\* default_settings(datas): production and consumption are read with
\* datas.get, so a missing direction is None and its .get raises
\* AttributeError; the consumption dict the third test reads is the one the
\* second test has just given its default pricings.
default_settings(datas) ==
    IF datas.production = << >>
    THEN [status |-> "AttributeError", datas |-> datas]
    ELSE IF datas.consumption = << >>
    THEN [status |-> "AttributeError", datas |-> datas]
    ELSE [status |-> "ok",
          datas |->
            [production |->
               IF datas.production[1].service # << >>
                  /\ len_pricings(datas.production[1]) = 0
               THEN << [datas.production[1] EXCEPT !.pricings = << DEFAULT_PRODUCTION >>] >>
               ELSE datas.production,
             consumption |->
               IF datas.consumption[1].service # << >>
                  /\ len_pricings(datas.consumption[1]) = 0
               THEN << [datas.consumption[1] EXCEPT !.pricings = << DEFAULT_CONSUMPTION >>] >>
               ELSE IF datas.consumption[1].tempo = << TRUE >>
                       /\ len_pricings(datas.consumption[1]) = 0
               THEN << Dir(<< "consumption_detail" >>, datas.consumption[1].tempo,
                           << DEFAULT_CONSUMPTION_TEMPO >>) >>
               ELSE datas.consumption]]

\* async_step_user, lines 112-122: the options of the new entry.  The dict
\* written for a selected consumption replaces the one written for tempo.
user_options(user_input) ==
    [production |-> IF user_input.production
                    THEN << Dir(<< "production_daily" >>, << >>, << >>) >>
                    ELSE << >>,
     consumption |-> IF user_input.consumption
                     THEN << Dir(<< "consumption_daily" >>, << >>, << >>) >>
                     ELSE IF user_input.tempo
                     THEN << Dir(<< >>, << TRUE >>, << >>) >>
                     ELSE << >>]

\* self._datas[step_id]
dir_of(datas, step_id) ==
    IF step_id = "production" THEN datas.production[1] ELSE datas.consumption[1]

set_dir(datas, step_id, direction) ==
    IF step_id = "production" THEN [datas EXCEPT !.production = << direction >>]
    ELSE [datas EXCEPT !.consumption = << direction >>]

\* self._datas[step_id].get(CONF_PRICINGS, {})
pricings_of(datas, step_id) ==
    IF dir_of(datas, step_id).pricings = << >> THEN << >>
    ELSE dir_of(datas, step_id).pricings[1]

\* What the user enters: the services of a direction, the name and the price
\* of a pricing; new pricings are added to the consumption, and the intervals
\* of its pricing "1" are the ones edited.
Services(step_id) ==
    IF step_id = "production" THEN { << >>, << "production_daily" >> }
    ELSE { << >>, << "consumption_daily" >>, << "consumption_detail" >> }
PricingNames == { "HP" }
NewPricingSteps == { "consumption" }
RulesEdited == { << "consumption", << "1" >> >> }

\* The dict holds MaxEntries entries at most, of ids up to MaxId.
within_bounds(keys, proposed) ==
    /\ proposed <= MaxId
    /\ Cardinality(keys \cup { str(proposed) }) <= MaxEntries

\* vol.In(pricings): nothing, "add new" or a pricing of the direction.
pricings_menu(datas, step_id) ==
    { << >> } \cup { << k >> : k \in DOMAIN pricings_of(datas, step_id) }
      \cup (IF step_id \in NewPricingSteps
               /\ within_bounds(DOMAIN pricings_of(datas, step_id),
                                new_id(DOMAIN pricings_of(datas, step_id)))
            THEN { << NEW_ID >> } ELSE {})

\* vol.In(rules): nothing, "add new" or an interval of the pricing.
rules_menu(step_id, pricing_id, intervals) ==
    IF << step_id, pricing_id >> \in RulesEdited
    THEN { << >> } \cup { << k >> : k \in DOMAIN intervals }
           \cup (IF within_bounds(DOMAIN intervals, new_id(DOMAIN intervals))
                 THEN { << NEW_ID >> } ELSE {})
    ELSE { << >> }

\* _async_pricings_form: the form of "add new" requires CONF_PRICING_ID to be
\* the id it proposes; the form of a pricing offers its deletion.
pricings_form(datas, pricing_id, step_id) ==
    [step_id |-> step_id,
     pricing_id |-> IF pricing_id = NEW_ID
                    THEN << str(new_id(DOMAIN pricings_of(datas, step_id))) >>
                    ELSE << >>,
     rule_id |-> << >>]

\* _async_rules_form: CONF_PRICING_ID is required to be the pricing; the form
\* of "add new" requires CONF_RULE_ID to be the id it proposes.
rules_form(datas, rule_id, pricing_id, step_id) ==
    [step_id |-> step_id,
     pricing_id |-> << pricing_id >>,
     rule_id |-> IF rule_id = NEW_ID
                 THEN << str(new_id(DOMAIN
                            pricings_of(datas, step_id)[pricing_id].intervals)) >>
                 ELSE << >>]

\* The config flow asks the user for the entry.
InitFlow ==
    /\ options_flow = << [step |-> "user",
                          datas |-> [production |-> << >>, consumption |-> << >>],
                          conf_pricing_id |-> << >>, conf_rule_id |-> << >>,
                          form |-> << >>, before |-> << >>] >>
    /\ rules = << >>
    /\ gateway = << >>
    /\ store = {}
    /\ pending = << >>
    /\ pc = "idle"
    /\ runs = 0
    /\ datas_collected = << >>
    /\ global_statistics = << >>
    /\ collects = << >>
    /\ ri = 1
    /\ di = 1
    /\ summary = 0
    /\ last_stats_time = << >>
    /\ ref_date = << >>
    /\ value = 0
    /\ branch = "none"
    /\ members = {}
    /\ seeds = << >>
    /\ admitted = {}
    /\ replay = FALSE
    /\ appended = << >>
    /\ fetch_error = FALSE
    /\ period = << >>
    /\ overlap = << >>
    /\ config_entry = << >>
    /\ modes = << >>
    /\ clear_call = << >>

\* EnedisFlowHandler.async_step_user: the gateway is asked for the identity;
\* the entry is created with default_settings(options).  When the gateway or
\* default_settings raises, no entry is created and the form stays.
async_step_user ==
    /\ options_flow # << >>
    /\ options_flow[1].step = "user"
    /\ \E user_input \in [production : BOOLEAN, consumption : BOOLEAN, tempo : BOOLEAN] :
         \E identity \in {"ok", "EnedisException"} :
            options_flow' =
              (IF identity = "ok"
                  /\ default_settings(user_options(user_input)).status = "ok"
               THEN << [options_flow[1] EXCEPT
                          !.step = "create_entry",
                          !.datas = default_settings(user_options(user_input)).datas,
                          !.before = << user_options(user_input) >>] >>
               ELSE options_flow)
    /\ UNCHANGED run_vars

\* EnedisOptionsFlowHandler.__init__ and async_step_init: the options of the
\* entry are copied, a missing direction as {} ; the menu is shown.
OptionsFlowInit ==
    /\ options_flow # << >>
    /\ options_flow[1].step = "create_entry"
    /\ options_flow' =
         << [step |-> "init",
             datas |-> [production |->
                          IF options_flow[1].datas.production = << >>
                          THEN << Dir(<< >>, << >>, << >>) >>
                          ELSE options_flow[1].datas.production,
                        consumption |->
                          IF options_flow[1].datas.consumption = << >>
                          THEN << Dir(<< >>, << >>, << >>) >>
                          ELSE options_flow[1].datas.consumption],
             conf_pricing_id |-> << >>, conf_rule_id |-> << >>,
             form |-> << >>, before |-> << >>] >>
    /\ UNCHANGED run_vars

\* The end of async_step_production and of async_step_consumption: with a
\* pricing selected async_step_pricings(None, sel_pricing, step_id) shows the
\* form of the pricing, else the menu is shown again.
after_direction(flow, datas, sel_pricing, step_id) ==
    IF sel_pricing # << >>
    THEN [flow EXCEPT !.datas = datas,
                      !.conf_pricing_id = IF sel_pricing[1] = NEW_ID THEN << >>
                                          ELSE sel_pricing,
                      !.step = "pricings",
                      !.form = << pricings_form(datas, sel_pricing[1], step_id) >>]
    ELSE [flow EXCEPT !.datas = datas]

\* async_step_production with user_input.
async_step_production ==
    /\ options_flow # << >>
    /\ options_flow[1].step = "init"
    /\ \E service \in Services("production") :
         \E sel_pricing \in pricings_menu(options_flow[1].datas, "production") :
            options_flow' =
              << after_direction(
                   options_flow[1],
                   set_dir(options_flow[1].datas, "production",
                           [dir_of(options_flow[1].datas, "production")
                              EXCEPT !.service = service]),
                   sel_pricing,
                   "production") >>
    /\ UNCHANGED run_vars

\* async_step_consumption with user_input.
async_step_consumption ==
    /\ options_flow # << >>
    /\ options_flow[1].step = "init"
    /\ \E service \in Services("consumption") : \E tempo \in BOOLEAN :
         \E sel_pricing \in pricings_menu(options_flow[1].datas, "consumption") :
            options_flow' =
              << after_direction(
                   options_flow[1],
                   set_dir(options_flow[1].datas, "consumption",
                           [dir_of(options_flow[1].datas, "consumption")
                              EXCEPT !.service = service, !.tempo = << tempo >>]),
                   sel_pricing,
                   "consumption") >>
    /\ UNCHANGED run_vars

\* The pricing saved by async_step_pricings: the name and the price entered,
\* the intervals the id already has; with tempo set, the prices of the colours.
saved_pricing(pricings, pricing_id, name, tempo) ==
    [pricing_name |-> name,
     pricing_cost |-> IF tempo = << TRUE >> THEN "tempo" ELSE "entered",
     colors |-> IF tempo = << TRUE >>
                THEN << [BLUE |-> "blue", WHITE |-> "white", RED |-> "red"] >>
                ELSE << >>,
     intervals |-> IF pricing_id \in DOMAIN pricings
                   THEN pricings[pricing_id].intervals ELSE << >>]

\* pricings.update({str(pricing_id): {...}}) of async_step_pricings.
save_pricing(datas, step_id, pricing_id, name) ==
    set_dir(datas, step_id,
        [dir_of(datas, step_id) EXCEPT
           !.pricings = << dict_set(@[1], pricing_id,
                             saved_pricing(@[1], pricing_id, name,
                                           dir_of(datas, step_id).tempo)) >>])

\* The end of async_step_pricings after a pricing was saved: with an interval
\* selected async_step_rules(rule_id, pricing_id, step_id) shows the form of
\* the interval, else the form of the direction is shown.
after_pricing(flow, datas, step_id, pricing_id, rule_id) ==
    IF rule_id # << >>
    THEN [flow EXCEPT
            !.datas = datas,
            !.conf_rule_id = IF rule_id[1] = NEW_ID THEN << >> ELSE rule_id,
            !.step = "rules",
            !.form = << rules_form(datas, rule_id[1], pricing_id, step_id) >>]
    ELSE [flow EXCEPT !.datas = datas, !.step = "init", !.form = << >>]

\* async_step_pricings with user_input, for the pricing `pricing_id`: the
\* pricing is deleted, or saved under str(pricing_id).  A direction without
\* the key CONF_PRICINGS raises KeyError and the form stays.
step_pricings(flow, step_id, pricing_id, delete, name, rule_id) ==
    IF dir_of(flow.datas, step_id).pricings = << >>
    THEN flow
    ELSE IF delete
    THEN [flow EXCEPT
            !.datas = set_dir(flow.datas, step_id,
                        [dir_of(flow.datas, step_id) EXCEPT
                           !.pricings = << dict_pop(@[1], pricing_id) >>]),
            !.step = "init", !.form = << >>]
    ELSE after_pricing(flow, save_pricing(flow.datas, step_id, pricing_id, name),
                       step_id, pricing_id, rule_id)

\* pricing_id = user_input.get(CONF_PRICING_ID, self._conf_pricing_id)
submitted_pricing_id(flow) ==
    IF flow.form[1].pricing_id # << >> THEN flow.form[1].pricing_id[1]
    ELSE flow.conf_pricing_id[1]

async_step_pricings ==
    /\ options_flow # << >>
    /\ options_flow[1].step = "pricings"
    /\ \E delete \in (IF options_flow[1].form[1].pricing_id = << >>
                      THEN BOOLEAN ELSE {FALSE}) :
         \E name \in PricingNames :
           \E rule_id \in rules_menu(
                  options_flow[1].form[1].step_id,
                  submitted_pricing_id(options_flow[1]),
                  saved_pricing(pricings_of(options_flow[1].datas,
                                            options_flow[1].form[1].step_id),
                                submitted_pricing_id(options_flow[1]),
                                name, << >>).intervals) :
              options_flow' =
                << step_pricings(options_flow[1], options_flow[1].form[1].step_id,
                                 submitted_pricing_id(options_flow[1]),
                                 delete, name, rule_id) >>
    /\ UNCHANGED run_vars

\* rule_id = user_input.get(CONF_RULE_ID, self._conf_rule_id)
submitted_rule_id(flow) ==
    IF flow.form[1].rule_id # << >> THEN flow.form[1].rule_id[1]
    ELSE flow.conf_rule_id[1]

\* async_step_rules with user_input: the interval is deleted, or saved under
\* str(rule_id); async_step_pricings(None, pricing_id, step_id) then shows the
\* form of the pricing.
step_rules(flow, step_id, pricing_id, rule_id, delete) ==
    [flow EXCEPT
       !.datas = set_dir(flow.datas, step_id,
                   [dir_of(flow.datas, step_id) EXCEPT
                      !.pricings[1][pricing_id].intervals =
                          IF delete THEN dict_pop(@, rule_id)
                          ELSE dict_set(@, rule_id, WholeDay)]),
       !.conf_pricing_id = << pricing_id >>,
       !.step = "pricings",
       !.form = << pricings_form(flow.datas, pricing_id, step_id) >>]

async_step_rules ==
    /\ options_flow # << >>
    /\ options_flow[1].step = "rules"
    /\ \E delete \in (IF options_flow[1].form[1].rule_id = << >>
                      THEN BOOLEAN ELSE {FALSE}) :
         options_flow' =
           << step_rules(options_flow[1], options_flow[1].form[1].step_id,
                         options_flow[1].form[1].pricing_id[1],
                         submitted_rule_id(options_flow[1]), delete) >>
    /\ UNCHANGED run_vars

\* async_step_save: the entry takes default_settings(self._datas).
async_step_save ==
    /\ options_flow # << >>
    /\ options_flow[1].step = "init"
    /\ options_flow' =
         << [options_flow[1] EXCEPT
               !.step = "create_entry",
               !.datas = default_settings(options_flow[1].datas).datas,
               !.before = << options_flow[1].datas >>] >>
    /\ UNCHANGED run_vars

NextFlow ==
    \/ async_step_user
    \/ OptionsFlowInit
    \/ async_step_production
    \/ async_step_consumption
    \/ async_step_pricings
    \/ async_step_rules
    \/ async_step_save

SpecFlow == InitFlow /\ [][NextFlow]_vars

\* ------------------------------------------------------------------- claims
\* The last run has returned from async_statistics.
Finished == pc = "idle" /\ runs >= 1

\* The statistic ids of the energy series of the rules.
EnergyIds == { rules[i].statistic_id : i \in 1 .. Len(rules) }

\* The sum the run read from the table for a statistic id (0 for an empty table).
SeedOf(statistic_id) ==
    LET i == CHOOSE j \in 1 .. Len(seeds) :
                 /\ seeds[j].statistic_id = statistic_id
                 /\ \A k \in 1 .. (j - 1) : seeds[k].statistic_id # statistic_id
    IN  seeds[i].sum

\* The records of one append chain from the sum `seed`.
Chained(records, seed) ==
    \A i \in 1 .. Len(records) :
        records[i].sum = (IF i = 1 THEN seed ELSE records[i - 1].sum) + records[i].state

\* C1: the energy records a run hands to the store for a rule satisfy, in
\* emission order, sum[0] = last persisted sum + state[0] and
\* sum[i] = sum[i-1] + state[i], also for a rule whose windows share one name;
\* with non-negative readings the sums never decrease.
C1_RunningSumChain ==
    Finished =>
        \A j \in 1 .. Len(appended) :
            appended[j].statistic_id \in EnergyIds =>
                /\ Chained(appended[j].statistics, SeedOf(appended[j].statistic_id))
                /\ \A i \in 2 .. Len(appended[j].statistics) :
                       appended[j].statistics[i - 1].sum <= appended[j].statistics[i].sum

\* C2: a run that repeats the dataset of the run before, against the table that
\* holds the records of that run, rejects every reading by the de-duplication
\* guard and ends having emitted no bucket.
C2_IdempotentReplay ==
    replay =>
        /\ pc # "raised"
        /\ branch \notin {"new_loop", "same_day", "midnight", "new_day"}
        /\ Finished => appended = << >>

\* C3: the open bucket of a rule holds readings of the calendar date of its
\* reference date only, and at most the one 00:00 sample of the date after.
C3_BucketIsOneCalendarDate ==
    (pc = "loop" /\ ref_date # << >>) =>
        /\ \A i \in members :
               \/ datas_collected[i].date = ref_date[1].date
               \/ /\ datas_collected[i].date = ref_date[1].date + 1
                  /\ datas_collected[i].clock = Midnight
        /\ Cardinality({ i \in members :
                           datas_collected[i].date # ref_date[1].date }) <= 1

\* The reading the loop is about to process is admitted by the window test and
\* by the de-duplication guard.
NextReadingAdmitted ==
    /\ pc = "loop" /\ di <= Len(datas_collected)
    /\ int_of_value(datas_collected[di]) = "int"
    /\ has_range(date_of(datas_collected[di]), rules[ri].rule_start_time,
                 rules[ri].rule_end_time)
    /\ last_stats_time = << >>

\* C4: when the reference reading of the open bucket is not at 00:00 and the
\* next admitted reading is of another date and exactly at 00:00, its energy is
\* added to the open bucket, the reference date stays and no bucket is
\* finalized or opened.
C4_MidnightContinuation ==
    [][ ( /\ NextReadingAdmitted
          /\ ref_date # << >>
          /\ ref_date[1].clock # Midnight
          /\ datas_collected[di].date # ref_date[1].date
          /\ datas_collected[di].clock = Midnight )
        => ( /\ value' = value + datas_collected[di].value
                           * weighted_interval(datas_collected[di].interval_length)
             /\ ref_date' = ref_date
             /\ collects' = collects
             /\ summary' = summary
             /\ pc' = "loop" ) ]_vars

C4_Witness ==
    /\ branch = "midnight"
    /\ datas_collected[di - 1].clock = Midnight
    /\ datas_collected[di - 1].date # ref_date[1].date
    /\ ref_date[1].clock # Midnight

\* C5: with a last row of start T in the table for the statistic id of the
\* rule, a reading of time t is skipped if t <= T + 1 day and admitted (the
\* window matching) if t > T + 1 day; with no row the guard skips no reading;
\* the run completes normally in both cases.
C5_DedupGuard ==
    /\ pc # "raised"
    /\ branch # "raise"
    /\ (pc = "loop" /\ branch \in {"new_loop", "same_day", "midnight", "new_day"}) =>
          \/ last_stats_time = << >>
          \/ Instant(date_of(datas_collected[di - 1]))
               > Instant(DateTime(last_stats_time[1] + 1, Midnight))
    /\ (pc = "loop" /\ branch = "skip_guard") =>
          /\ last_stats_time # << >>
          /\ Instant(date_of(datas_collected[di - 1]))
               <= Instant(DateTime(last_stats_time[1] + 1, Midnight))

\* The rule and the reading of the last iteration of the loop.
LastRule == rules[ri]
LastReading == datas_collected[di - 1]
Iterated == pc \in {"loop", "raised"} /\ branch # "none"
Accumulated == branch \in {"new_loop", "same_day", "midnight", "new_day"}

\* C6: has_range(t, start, end) is true exactly when start < t <= end, or end
\* is 00:00:00 and (t > start or t is 00:00:00): the start is excluded, the end
\* included, and a window that ends at midnight holds the 00:00 sample.
C6_HasRangeTable ==
    Iterated =>
        ( (branch # "skip_range")
          <=> ( \/ ( LastRule.rule_start_time < LastReading.clock
                     /\ LastReading.clock <= LastRule.rule_end_time )
                \/ ( LastRule.rule_end_time = Midnight
                     /\ ( LastReading.clock > LastRule.rule_start_time
                          \/ LastReading.clock = Midnight ) ) ) )

\* A reading at the start of its window, which does not end at midnight, is left out.
C6_Witness ==
    /\ Iterated
    /\ branch = "skip_range"
    /\ LastReading.clock = LastRule.rule_start_time
    /\ LastRule.rule_start_time < LastRule.rule_end_time

\* The rules of the scenario: peak hours 06:00-22:00, off-peak hours 22:00-06:00.
PeakOffpeakRules ==
    << custom_rule("hp", T0600, T2200, 15), custom_rule("hc", T2200, T0600, 10) >>

RECURSIVE SumOver(_, _)
SumOver(f, S) ==
    IF S = {} THEN 0
    ELSE LET x == CHOOSE y \in S : TRUE IN f[x] + SumOver(f, S \ {x})

\* The energy a run appended for a statistic id, all days together.
EnergyAppended(statistic_id) ==
    LET recs == UNION { { appended[j].statistics[i] : i \in 1 .. Len(appended[j].statistics) } :
                        j \in { k \in 1 .. Len(appended) :
                                  appended[k].statistic_id = statistic_id } }
    IN  SumOver([ r \in recs |-> r.state ], recs)

\* The weighted energy of the readings of the dataset, as the claims state it.
EnergyOfReadings(S) ==
    SumOver([ i \in S |-> datas_collected[i].value
                            * weighted_interval(datas_collected[i].interval_length) ], S)

\* C7: with peak 06:00-22:00 and off-peak 22:00-06:00 every reading is
\* accumulated by exactly one of the two rules, so that peak energy plus
\* off-peak energy is the energy of the readings (of each day, hence of the run).
C7_PeakOffpeakPartition ==
    (rules = PeakOffpeakRules /\ Finished) =>
        /\ \A i \in 1 .. Len(datas_collected) :
               Cardinality({ r \in 1 .. Len(rules) : << r, i >> \in admitted }) = 1
        /\ EnergyAppended(rules[1].statistic_id) + EnergyAppended(rules[2].statistic_id)
             = EnergyOfReadings(1 .. Len(datas_collected))

\* C8: the window 00:00:00-00:00:00 of the default rule matches every reading,
\* whatever its clock time.
C8_WholeDayWindow ==
    ( Iterated /\ LastRule.rule_start_time = Midnight
               /\ LastRule.rule_end_time = Midnight ) => branch # "skip_range"

\* The whole-day window has admitted a sample at 00:00 and one later in the day.
C8_Witness ==
    /\ pc = "loop" /\ Accumulated
    /\ LastRule.rule_start_time = Midnight /\ LastRule.rule_end_time = Midnight
    /\ \E i \in 1 .. (di - 1) : datas_collected[i].clock = Midnight /\ << ri, i >> \in admitted
    /\ \E i \in 1 .. (di - 1) : datas_collected[i].clock # Midnight /\ << ri, i >> \in admitted

\* The minutes a duration tag PT{minutes}M states, for any number of digits;
\* no value for a tag of another form.
RECURSIVE DecimalValue(_)
DecimalValue(ds) ==
    IF ds = << >> THEN 0
    ELSE 10 * DecimalValue(SubSeq(ds, 1, Len(ds) - 1)) + DigitValue(ds[Len(ds)])

StatedMinutes(tag) ==
    IF /\ Len(tag) >= 4
       /\ tag[1] = "P" /\ tag[2] = "T" /\ tag[Len(tag)] = "M"
       /\ \A i \in 3 .. (Len(tag) - 1) : tag[i] \in Digits
    THEN << DecimalValue(SubSeq(tag, 3, Len(tag) - 1)) >>
    ELSE << >>

\* C9: an admitted reading contributes value_wh / 1000 * w kWh, w = minutes / 60
\* for a duration tag PT{minutes}M of any number of minutes, w = 1 without such
\* a tag.
C9_WeightedContribution ==
    (pc = "loop" /\ branch \in {"new_loop", "new_day"}) =>
        value = LastReading.value
                  * (IF StatedMinutes(LastReading.interval_length) = << >>
                     THEN MinutesPerHour
                     ELSE StatedMinutes(LastReading.interval_length)[1])

\* C10: 48 half-hour readings of 1000 Wh over one calendar day, nothing
\* persisted, the whole-day rule at 0.15: one energy bucket of state 24.0 kWh and
\* sum 24.0, one cost record of state 3.60.
C10_OneDayScenario ==
    ( /\ Finished
      /\ datas_collected \in LoadCurves
      /\ rules = default_rules(15)
      /\ SeedOf(rules[1].statistic_id) = 0 )
    => /\ Len(appended) = 2
       /\ appended[1].statistic_id = rules[1].statistic_id
       /\ Len(appended[1].statistics) = 1
       /\ appended[1].statistics[1].state = 24 * UnitsPerKwh
       /\ appended[1].statistics[1].sum = 24 * UnitsPerKwh
       /\ appended[1].statistics[1].start = DateTime(0, Midnight)
       /\ appended[2].statistic_id = rules[1].statistic_id \o "_cost"
       /\ Len(appended[2].statistics) = 1
       /\ appended[2].statistics[1].state = 360

C10_Witness ==
    /\ Finished
    /\ datas_collected = load_curve_day(30)
    /\ rules = default_rules(15)
    /\ SeedOf(rules[1].statistic_id) = 0
    /\ Len(appended) = 2

\* The sum of the cost series the table held when the run read the energy
\* series of a statistic id (0 for none).
CostSeedOf(statistic_id) ==
    LET i == CHOOSE j \in 1 .. Len(seeds) :
                 /\ seeds[j].statistic_id = statistic_id
                 /\ \A k \in 1 .. (j - 1) : seeds[k].statistic_id # statistic_id
    IN  seeds[i].cost_sum

\* The price of the rules of a statistic id.
PriceOf(statistic_id) ==
    (CHOOSE r \in { rules[i] : i \in 1 .. Len(rules) } :
        r.statistic_id = statistic_id).rule_price

\* C11: for a rule of a positive price the cost series has
\* state[i] = round(period_energy[i] * price, 2) and a running sum seeded from
\* the last persisted sum of the cost series that grows by state[i]; the sum is
\* not derived from the sum of the energy series.
C11_CostRunningSum ==
    Finished =>
        \A j \in 1 .. Len(appended) :
            ( appended[j].statistic_id \in EnergyIds
              /\ PriceOf(appended[j].statistic_id) > 0 ) =>
                LET energy == appended[j].statistics
                    costs == appended[j + 1].statistics
                IN  /\ appended[j + 1].statistic_id = appended[j].statistic_id \o "_cost"
                    /\ Len(costs) = Len(energy)
                    /\ \A i \in 1 .. Len(costs) :
                           costs[i].state
                             = cost_of(energy[i].state, PriceOf(appended[j].statistic_id))
                    /\ Chained(costs, CostSeedOf(appended[j].statistic_id))

\* The statistic ids of the appends the last run issued.
AppendedIds == { appended[j].statistic_id : j \in 1 .. Len(appended) }

\* C12: for a rule of a price that is zero or negative the run writes no record
\* to the cost series of the rule, while its energy series is still written.
C12_NoCostWithoutPrice ==
    Finished =>
        \A r \in 1 .. Len(rules) :
            rules[r].rule_price <= 0 =>
                /\ (rules[r].statistic_id \o "_cost") \notin AppendedIds
                /\ collects[index_of_name(collects, rules[r].name)].statistics # << >>
                     => rules[r].statistic_id \in AppendedIds

\* The energy records the last run appended for a statistic id, in emission
\* order (none when the run appended nothing for it).
EnergyRecords(statistic_id) ==
    IF statistic_id \in AppendedIds
    THEN appended[CHOOSE j \in 1 .. Len(appended) :
                    appended[j].statistic_id = statistic_id].statistics
    ELSE << >>

\* C13: for every rule that is not disabled, the value returned for its name in
\* the summary map is the sum of the last energy record emitted for the rule in
\* the run, or the last persisted sum (0 for none) when it emitted no bucket.
C13_SummaryIsLastSum ==
    Finished =>
        \A r \in 1 .. Len(rules) :
            ~ rules[r].disabled =>
                /\ rules[r].name \in DOMAIN global_statistics
                /\ global_statistics[rules[r].name]
                     = ( LET records == EnergyRecords(rules[r].statistic_id)
                         IN  IF records # << >> THEN records[Len(records)].sum
                             ELSE SeedOf(rules[r].statistic_id) )

\* The readings the rule of index r added to its buckets in the run.
AdmittedBy(r) == { i \in 1 .. Len(datas_collected) : << r, i >> \in admitted }

\* C14: the disabled rule of the history service never adds or changes an
\* entry of the summary map of the run, while its buckets are still computed
\* and handed to the store.
C14_DisabledRuleLeavesSummary ==
    rules = history_rules(15) =>
        /\ DOMAIN global_statistics = {}
        /\ ( Finished /\ \E i \in AdmittedBy(1) : datas_collected[i].value > 0 )
             => /\ rules[1].statistic_id \in AppendedIds
                /\ EnergyAppended(rules[1].statistic_id) = EnergyOfReadings(AdmittedBy(1))

C14_Witness ==
    /\ rules = history_rules(15)
    /\ Finished
    /\ Len(EnergyRecords(rules[1].statistic_id)) = 2
    /\ DOMAIN global_statistics = {}

\* The step that ends the loop over the readings of a rule.
TerminalStep == pc = "loop" /\ di > Len(datas_collected) /\ pc' # "loop"

\* C15: at the end of the stream a bucket still open with a value > 0 is
\* finalized once, at its reference date and as a change of day finalizes it
\* (the value buffered for the date is merged, the summary grows by the merged
\* value); with a value of 0, or no bucket open, the step emits nothing.
C15_TerminalFlush ==
    [][ TerminalStep =>
          LET n == index_of_name(collects, rules[ri].name)
              before == collects[n].statistics
              after == collects'[n].statistics
          IN  /\ \A m \in 1 .. Len(collects) : m # n => collects'[m] = collects[m]
              /\ Len(collects') = Len(collects)
              /\ IF value > 0
                 THEN LET date == DateTime(ref_date[1].date, Midnight)
                          k == index_of_date(before, date)
                          buffered == IF k = 0 THEN 0 ELSE before[k].value
                          item == after[IF k = 0 THEN Len(after) ELSE k]
                      IN  /\ Len(after) = (IF k = 0 THEN Len(before) + 1 ELSE Len(before))
                          /\ \A i \in 1 .. Len(before) : i # k => after[i] = before[i]
                          /\ item.date_ref = date
                          /\ item.value = buffered + value
                          /\ item.summary = summary + buffered + value
                          /\ summary' = summary + buffered + value
                 ELSE after = before /\ summary' = summary ]_vars

\* The loop of the last rule has ended with an open bucket of a positive value
\* and the bucket of its reference date is in collects.
C15_Witness ==
    /\ pc = "insert"
    /\ value > 0
    /\ ref_date # << >>
    /\ \E n \in 1 .. Len(collects) : \E i \in 1 .. Len(collects[n].statistics) :
          /\ collects[n].statistics[i].date_ref = DateTime(ref_date[1].date, Midnight)
          /\ collects[n].statistics[i].value >= value

\* An exception has left async_statistics while the rule of index ri was processed.
Failed == pc \in {"raised", "value_error", "store_error"}

\* C16: when the processing of one rule fails (the read of its last statistics
\* raises, for one), the failure stays with that rule: no rule after it is left
\* unprocessed when the run is over, and the buckets of the other rules are
\* handed to the store.
C16_FailureStaysWithRule ==
    Failed =>
        /\ ri = Len(rules)
        /\ \A n \in 1 .. Len(collects) :
               ( collects[n].name # rules[ri].name /\ collects[n].statistics # << >> )
                 => collects[n].statistic_id \in AppendedIds

\* The sums the run read from the table for a statistic id.
SeedsOf(statistic_id) ==
    { seeds[k].sum : k \in { j \in 1 .. Len(seeds) : seeds[j].statistic_id = statistic_id } }

C18_NoFailurePropagates ==
    /\ pc # "store_error"
    /\ fetch_error => pc \notin {"raised", "value_error"}

\* C19: a reading whose value is missing (or is no integer) is skipped on its
\* own: the pass of the rule does not abort, and the run ends having
\* aggregated, for every rule, exactly the readings with a value that its
\* window matches.
C19_MalformedReadingSkipped ==
    /\ pc # "value_error"
    /\ Finished =>
         \A r \in 1 .. Len(rules) : \A i \in 1 .. Len(datas_collected) :
             << r, i >> \in admitted
               <=> ( /\ int_of_value(datas_collected[i]) = "int"
                     /\ has_range(date_of(datas_collected[i]),
                                  rules[r].rule_start_time, rules[r].rule_end_time) )

\* The readings whose clock time falls in at least one window of the rules.
InSomeWindow ==
    { i \in 1 .. Len(datas_collected) :
        \E r \in 1 .. Len(rules) :
            has_range(date_of(datas_collected[i]),
                      rules[r].rule_start_time, rules[r].rule_end_time) }

\* C20: for a rule of several windows sharing one rule id, the buckets hold
\* the weighted energy of the readings whose clock time falls in at least one
\* of the windows, each such reading counted once, also when windows overlap
\* (day by day, hence over the days of the run together).
C20_WindowsCountOnce ==
    ( Finished /\ Len(rules) = 2 /\ rules[1].name = rules[2].name ) =>
        EnergyAppended(rules[1].statistic_id) = EnergyOfReadings(InSomeWindow)

\* C22: for a stream sorted ascending by timestamp, the records handed to the
\* store for each statistic id have strictly increasing starts.
C22_ChronologicalEmission ==
    Finished =>
        \A j \in 1 .. Len(appended) :
            \A i \in 2 .. Len(appended[j].statistics) :
                Instant(appended[j].statistics[i - 1].start)
                  < Instant(appended[j].statistics[i].start)

\* The rows a job writes to the table.
RowsOf(job) ==
    { [statistic_id |-> job.statistic_id, start |-> job.statistics[i].start,
       state |-> job.statistics[i].state, sum |-> job.statistics[i].sum] :
      i \in 1 .. Len(job.statistics) }

\* C23: the writes to the store are awaited inside the run: when the pass has
\* returned, every append it issued has completed (its rows are in the table,
\* no job of it is waiting), so a read of a later run observes them.
C23_AppendsCompleteAtReturn ==
    Finished =>
        /\ pending = << >>
        /\ \A j \in 1 .. Len(appended) : RowsOf(appended[j]) \subseteq store

\* C25: every record a run emits starts at 00:00:00 of the reference date of
\* its bucket (the date of a reading its rule accumulated), and no two records
\* of one statistic id in a run have the same start.
C25_StartsAtMidnightOnce ==
    Finished =>
        \A j \in 1 .. Len(appended) :
            LET records == appended[j].statistics
            IN  /\ \A i \in 1 .. Len(records) :
                       /\ records[i].start.clock = Midnight
                       /\ \E r \in 1 .. Len(rules) : \E k \in AdmittedBy(r) :
                              /\ appended[j].statistic_id
                                   \in { rules[r].statistic_id,
                                         rules[r].statistic_id \o "_cost" }
                              /\ datas_collected[k].date = records[i].start.date
                /\ \A i, k \in 1 .. Len(records) :
                       i # k => records[i].start # records[k].start

\* A run has emitted two buckets, the later one opened by a reading that is
\* not at 00:00.
C25_Witness ==
    /\ Finished
    /\ appended # << >>
    /\ Len(appended[1].statistics) = 2
    /\ ref_date # << >>
    /\ ref_date[1].clock # Midnight

\* The rows of the table that belong to the statistic id of a rule.
StoredRows(statistic_id) == { row \in store : row.statistic_id = statistic_id }

EnergyStored(statistic_id) ==
    SumOver([ row \in StoredRows(statistic_id) |-> row.state ],
            StoredRows(statistic_id))

\* The readings of the gateway, those without a value left out, that some
\* window of a statistic id matches.
MatchedBy(statistic_id) ==
    { i \in 1 .. Len(gateway) :
        \E r \in 1 .. Len(rules) :
            /\ int_of_value(gateway[i]) = "int"
            /\ rules[r].statistic_id = statistic_id
            /\ has_range(date_of(gateway[i]),
                         rules[r].rule_start_time, rules[r].rule_end_time) }

\* C28: over serialized runs on ascending datasets, the records of each run in
\* the table before the next run reads it, the energy of no reading is in the
\* persisted buckets of a rule more than once: the table never holds more
\* energy for a rule than the readings that its windows match.
C28_NoReadingCountedTwice ==
    ( pc = "idle" /\ pending = << >> ) =>
        \A id \in EnergyIds :
            EnergyStored(id)
              <= SumOver([ i \in MatchedBy(id) |->
                             gateway[i].value * weighted_interval(gateway[i].interval_length) ],
                         MatchedBy(id))

\* C30: history backfill.  When the history service was called with a start
\* date before the first persisted bucket of the statistic id, and its run is
\* over with every append executed, the table holds a bucket for each day of
\* the period before that bucket for which the gateway returned a reading.
C30_HistoryBackfill ==
    ( /\ pc \in {"idle", "raised"} /\ pending = << >>
      /\ rules[1].disabled /\ ~ fetch_error
      /\ period # << >> /\ period[1].persisted /\ period[1].after < period[1].end
      /\ \A i \in 1 .. Len(datas_collected) : int_of_value(datas_collected[i]) = "int" )
    => \A i \in 1 .. Len(datas_collected) :
         datas_collected[i].date < period[1].end
         => \E row \in StoredRows(rules[1].statistic_id) :
              row.start.date = datas_collected[i].date

\* The rule list in the opposite order.
reversed(rs) == [ i \in 1 .. Len(rs) |-> rs[Len(rs) + 1 - i] ]

\* C21: rules are independent.  In a finished run that read an empty table,
\* the buckets with their running sums and the summary value of every rule are
\* those the rule gives when it is processed alone on the same dataset, and
\* those the run gives with the rule list in the opposite order.
C21_RulesIndependent ==
    ( Finished /\ store = {} )
    => \A r \in 1 .. Len(rules) :
         LET alone == rules_loop(<< rules[r] >>, {}, datas_collected, << >>, << >>)
             other == rules_loop(reversed(rules), {}, datas_collected, << >>, << >>)
             n == index_of_name(collects, rules[r].name)
         IN  /\ alone.status = "ok" /\ other.status = "ok"
             /\ collects[n].statistics = alone.collects[1].statistics
             /\ collects[n].statistics =
                  other.collects[index_of_name(other.collects, rules[r].name)].statistics
             /\ ~ rules[r].disabled
                  => /\ global_statistics[rules[r].name] = alone.global_statistics[rules[r].name]
                     /\ global_statistics[rules[r].name] = other.global_statistics[rules[r].name]

\* Both cycles are over, neither was refused a read by the recorder, and the
\* executor has run every append.
BothOver ==
    /\ overlap # << >>
    /\ overlap[1].pc \in {"done", "raised", "value_error"}
    /\ pc \in {"idle", "raised", "value_error"}
    /\ pending = << >>

\* C29: two refresh cycles overlap on one dataset, starting from one table.
\* However their reads and appends interleave, when both are over and every
\* append is executed the table is the table one run alone would have left.
C29_OverlapEqualsSingleRun ==
    BothOver => store = single_run_store(rules, overlap[1].table, overlap[1].datas)

\* Both cycles returned and their appends changed the table.
C29_Witness ==
    /\ BothOver
    /\ overlap[1].pc = "done" /\ pc = "idle"
    /\ store # overlap[1].table

\* The collects of a query in what get_mode returned.
CollectsOf(query) == { i \in 1 .. Len(modes[1]) : modes[1][i].query = query }

\* The flat price of the direction of a query.
FlatPrice(query) ==
    IF query \in {"production_daily", "production_detail"}
    THEN config_entry[1].pc ELSE config_entry[1].cc

\* C24: rule-set construction.  Without custom rules every enabled direction
\* has exactly one collect, of exactly one rule, from midnight to midnight at
\* the flat price of the direction, and a disabled direction has none.  With
\* custom rules and detailed consumption the consumption collect has exactly
\* one rule per custom entry, built from that entry, and no rule is the
\* whole-day consumption rule.
C24_RuleSetConstruction ==
    modes # << >> =>
      LET e == config_entry[1]
          m == modes[1]
      IN  /\ Len(e.rules) = 0 =>
                /\ \A q \in {e.production, e.consumption} \ {"off"} :
                     /\ Cardinality(CollectsOf(q)) = 1
                     /\ \A i \in CollectsOf(q) :
                          /\ Len(m[i].rules) = 1
                          /\ m[i].rules[1].rule_start_time = Midnight
                          /\ m[i].rules[1].rule_end_time = Midnight
                          /\ m[i].rules[1].rule_price = FlatPrice(q)
                /\ Len(m) = Cardinality({e.production, e.consumption} \ {"off"})
          /\ ( Len(e.rules) > 0 /\ e.consumption = "consumption_detail" ) =>
                /\ Cardinality(CollectsOf("consumption_detail")) = 1
                /\ \A i \in CollectsOf("consumption_detail") :
                     /\ Len(m[i].rules) = Len(e.rules)
                     /\ \A k \in 1 .. Len(e.rules) :
                          /\ m[i].rules[k].name = "consumption_" \o e.rules[k].rule_name
                          /\ m[i].rules[k].rule_start_time = e.rules[k].rule_start_time
                          /\ m[i].rules[k].rule_end_time = e.rules[k].rule_end_time
                          /\ m[i].rules[k].rule_price = e.rules[k].rule_price
                /\ \A i \in 1 .. Len(m) : \A k \in 1 .. Len(m[i].rules) :
                     m[i].rules[k].name # "consumption"

\* get_mode has answered for an entry of two custom rules, detailed
\* consumption and daily production.
C24_Witness ==
    /\ modes # << >>
    /\ Len(config_entry[1].rules) = 2
    /\ config_entry[1].consumption = "consumption_detail"
    /\ config_entry[1].production = "production_daily"
    /\ Len(modes[1]) = 2

\* The jobs of the cost series among the appends of the finished run.
CostJobs == { j \in 1 .. Len(appended) :
                \E r \in 1 .. Len(rules) :
                  appended[j].statistic_id = rules[r].statistic_id \o "_cost" }

\* C26: price resolution.  The price of a pricing for a day colour is the
\* table's price when the colour is given and defined, else the flat price;
\* and a run whose rule carries the price of a pricing that resolves neither
\* way appends no cost series.
C26_PriceResolution ==
    \A pricing \in Pricings : \A color \in ColorTokens :
      LET defined == /\ color # << >> /\ pricing.price_table # << >>
                     /\ color[1] \in DOMAIN pricing.price_table[1]
      IN  /\ defined => resolve_price(pricing, color) = pricing.price_table[1][color[1]]
          /\ ( ~ defined /\ pricing.price # << >> )
               => resolve_price(pricing, color) = pricing.price[1]
          /\ ( /\ ~ defined /\ pricing.price = << >>
               /\ Finished
               /\ \A r \in 1 .. Len(rules) :
                    rules[r].rule_price = resolve_price(pricing, color) )
               => CostJobs = {}

\* The rule finalized no bucket in the last run: its name has no entry in
\* collects, or an entry without statistics.
NoBucket(r) ==
    \/ index_of_name(collects, rules[r].name) = 0
    \/ collects[index_of_name(collects, rules[r].name)].statistics = << >>

\* C31: when the run is over (returned or raised), for a rule whose name
\* finalized no bucket the run has issued no append to the energy series nor to
\* the cost series of the name, and the appends the run did issue leave the rows
\* of both statistic ids as they are.
C31_NoBucketNoAppend ==
    (Finished \/ Failed) =>
        \A r \in 1 .. Len(rules) :
            NoBucket(r) =>
                /\ rules[r].statistic_id \notin AppendedIds
                /\ (rules[r].statistic_id \o "_cost") \notin AppendedIds
                /\ \A id \in { rules[r].statistic_id, rules[r].statistic_id \o "_cost" } :
                       { row \in apply_jobs(store, appended) : row.statistic_id = id }
                         = StoredRows(id)

\* A returned run on a dataset that is not empty appended the buckets of one
\* rule while another rule, whose window took no reading, has no bucket.
C31_Witness ==
    /\ Finished
    /\ datas_collected # << >>
    /\ appended # << >>
    /\ \E r \in 1 .. Len(rules) : NoBucket(r)

\* The text starts with the seven characters of "enedis:".
HasEnedisPrefix(chars) ==
    /\ Len(chars) >= 7
    /\ \A i \in 1 .. 7 : chars[i] = Enedis[i]

\* The statistic ids that have rows in the table.
IdsOf(table) == { r.statistic_id : r \in table }

\* C32: a call of the clear service with an id that does not start with
\* "enedis:" changes neither the table nor the jobs of the executor; a call with
\* an id that starts with "enedis:" hands the executor the clearing of that id
\* alone; a clearing job removes the rows of its id and no other row, and every
\* statistic id that loses its rows starts with "enedis:".
C32_ClearOnlyEnedis ==
    [][ /\ ( clear_call' # clear_call /\ ~ HasEnedisPrefix(clear_call'[1]) )
             => ( store' = store /\ pending' = pending )
        /\ ( clear_call' # clear_call /\ HasEnedisPrefix(clear_call'[1]) )
             => ( /\ store' = store
                  /\ pending' = Append(pending, [statistic_ids |-> clear_call']) )
        /\ ( pending # << >> /\ pending' = Tail(pending) )
             => store' = { r \in store :
                             r.statistic_id # text(Head(pending).statistic_ids[1]) }
        /\ \A id \in IdsOf(store) \ IdsOf(store') :
             \E chars \in StatisticIdsCalled :
                 text(chars) = id /\ HasEnedisPrefix(chars)
      ]_vars

\* After a refresh cycle the energy series of the whole-day rule was cleared
\* (its cost series is still there), then the service was called with
\* "xenedis:pdl_consumption", whose rows are still in the table.
C32_Witness ==
    /\ clear_call = << << "x" >> \o Enedis \o PdlConsumption >>
    /\ pending = << >>
    /\ StoredRows("enedis:pdl_consumption") = {}
    /\ StoredRows("enedis:pdl_consumption_cost") # {}
    /\ StoredRows("xenedis:pdl_consumption") # {}
    /\ StoredRows("sensor:pdl_consumption") # {}

\* C33: the id a form of the options flow proposes for a new pricing is the id
\* of no pricing of the direction, and the id it proposes for a new interval is
\* the id of no interval of the pricing.
C33_NewIdIsFresh ==
    options_flow # << >> =>
        /\ ( options_flow[1].step = "pricings"
             /\ options_flow[1].form[1].pricing_id # << >> )
             => options_flow[1].form[1].pricing_id[1]
                  \notin DOMAIN pricings_of(options_flow[1].datas,
                                            options_flow[1].form[1].step_id)
        /\ ( options_flow[1].step = "rules"
             /\ options_flow[1].form[1].rule_id # << >> )
             => options_flow[1].form[1].rule_id[1]
                  \notin DOMAIN pricings_of(options_flow[1].datas,
                                            options_flow[1].form[1].step_id)
                                  [options_flow[1].form[1].pricing_id[1]].intervals

\* default_settings has returned: the entry was created, or its options saved.
Settled == options_flow # << >> /\ options_flow[1].step = "create_entry"

\* The settings default_settings was given had tempo set for the consumption
\* and no pricing of the consumption.
TempoWithoutPricing ==
    /\ options_flow[1].before[1].consumption # << >>
    /\ options_flow[1].before[1].consumption[1].tempo = << TRUE >>
    /\ len_pricings(options_flow[1].before[1].consumption[1]) = 0

\* C34: after default_settings, settings that had tempo set for the consumption
\* and no pricing of it hold for the consumption the detailed service, the
\* tempo flag and the default tempo pricings, with or without a service selected
\* before; and a direction with a service has one pricing at least.
C34_TempoDefaults ==
    Settled =>
        /\ TempoWithoutPricing
             => options_flow[1].datas.consumption
                  = << Dir(<< "consumption_detail" >>, << TRUE >>,
                           << DEFAULT_CONSUMPTION_TEMPO >>) >>
        /\ \A step_id \in {"production", "consumption"} :
             dir_of(options_flow[1].datas, step_id).service # << >>
               => len_pricings(dir_of(options_flow[1].datas, step_id)) >= 1

====
